---------------------------- MODULE Spec2Model ----------------------------
(***************************************************************************)
(* A model of awesome-stars' staleness analysis: the reference extractor,  *)
(* the staleness scorer (GitHubAnalyzer.analyze_staleness), the CLI run    *)
(* (analyze_staleness.main with analyze_awesome_stars) and the chunked run *)
(* (focused_analysis.main).                                                *)
(*                                                                         *)
(* A Python dict is a function whose domain holds the keys present; a JSON *)
(* value that may be null is a tagged record; a string is either an atom   *)
(* or, where the code looks at its characters, a sequence of one-character *)
(* strings; a formatted message is its text with the number put into it.   *)
(***************************************************************************)
EXTENDS Integers, Sequences, FiniteSets, TLC

VARIABLES
    now,            \* the clock reading datetime.now() gives, in hours
    repo_info,      \* the dict get_repo_info returned last
    staleness,      \* what analyze_staleness returned (or raised) last
    content,        \* the text of the README
    repos,          \* the list of unique references, in list(set(..)) order
    prog,           \* which program runs: "score", "extract", "cli", "focused"
    pc,             \* the position in that program
    readme_exists,  \* whether the input document is there
    output_arg,     \* whether --output was given (the chunked run always saves)
    idx,            \* how many references the loop has gone through
    results,        \* the in-memory report
    fetched,        \* the platform's answer to each request, in order
    written,        \* the reports written to the output file, in order
    exit_code,      \* what main returned (-1 while it runs)
    message         \* the last line main printed about the run's end

vars == << now, repo_info, staleness, content, repos, prog, pc, readme_exists,
           output_arg, idx, results, fetched, written, exit_code, message >>

-----------------------------------------------------------------------------
(* Bounds of the model *)

MaxStars == 12
MaxYears == 6

-----------------------------------------------------------------------------
(* JSON values and dicts *)

JNull == [t |-> "null"]
JInt(n) == [t |-> "int", v |-> n]
JStr(s) == [t |-> "str", v |-> s]
\* an ISO-8601 timestamp string, held as the hour it names
JTime(h) == [t |-> "str", hours |-> h]

EmptyDict == <<>>

\* dict.get(key, default)
Get(d, key, default) == IF key \in DOMAIN d THEN d[key] ELSE default

\* an f-string: its text and the number formatted into it
Msg(text) == [text |-> text, n |-> 0]
MsgN(text, n) == [text |-> text, n |-> n]

\* a raised exception, in place of a returned value
Raise(kind) == [exc |-> kind]
Raised(v) == "exc" \in DOMAIN v

NoValue == [none |-> TRUE]

-----------------------------------------------------------------------------
(* The staleness scorer *)

HoursPerDay == 24

\* (datetime.now().astimezone() - pushed_date).days: whole days, rounded down
days_since_push(clock, pushed_at) == (clock - pushed_at.hours) \div HoursPerDay

ErrorResultAddsRules(info) ==
    [staleness_score |-> 100 + (IF Get(info, "archived", FALSE) THEN 50 ELSE 0),
     reasons |-> <<info["error"]>>
                 \o (IF Get(info, "archived", FALSE)
                     THEN <<Msg("Repository is archived")>> ELSE <<>>),
     is_stale |-> TRUE,
     category |-> "error"]

\* the early return for an error-tagged dict
ErrorResult(info) ==
    [staleness_score |-> 100,
     reasons |-> <<info["error"]>>,
     is_stale |-> TRUE,
     category |-> "error"]

ArchivedRule(info) ==
    IF Get(info, "archived", FALSE)
    THEN [points |-> 50, reasons |-> <<Msg("Repository is archived")>>]
    ELSE [points |-> 0, reasons |-> <<>>]

ForkRuleThirty(info) ==
    IF Get(info, "fork", FALSE)
    THEN [points |-> 30, reasons |-> <<Msg("Repository is a fork")>>]
    ELSE [points |-> 0, reasons |-> <<>>]

ForkRule(info) ==
    IF Get(info, "fork", FALSE)
    THEN [points |-> 10, reasons |-> <<Msg("Repository is a fork")>>]
    ELSE [points |-> 0, reasons |-> <<>>]

AgeBracketNotStrict(d) ==
    IF d >= 365 * 3
    THEN [points |-> 40, reasons |-> <<MsgN("No commits in N years", d \div 365)>>]
    ELSE IF d >= 365 * 2
    THEN [points |-> 30, reasons |-> <<MsgN("No commits in N years", d \div 365)>>]
    ELSE IF d >= 365
    THEN [points |-> 20, reasons |-> <<MsgN("No commits in N days", d)>>]
    ELSE IF d >= 180
    THEN [points |-> 10, reasons |-> <<MsgN("No commits in N days", d)>>]
    ELSE [points |-> 0, reasons |-> <<>>]

\* the if/elif chain on days_since_push
AgeBracket(d) ==
    IF d > 365 * 3
    THEN [points |-> 40, reasons |-> <<MsgN("No commits in N years", d \div 365)>>]
    ELSE IF d > 365 * 2
    THEN [points |-> 30, reasons |-> <<MsgN("No commits in N years", d \div 365)>>]
    ELSE IF d > 365
    THEN [points |-> 20, reasons |-> <<MsgN("No commits in N days", d)>>]
    ELSE IF d > 180
    THEN [points |-> 10, reasons |-> <<MsgN("No commits in N days", d)>>]
    ELSE [points |-> 0, reasons |-> <<>>]

\* "if pushed_at:" is false for None; a timestamp string is never empty
Truthy(v) == v.t # "null"

AgeRule(info, clock) ==
    LET pushed_at == Get(info, "pushed_at", JNull)
    IN  IF Truthy(pushed_at)
        THEN AgeBracket(days_since_push(clock, pushed_at))
        ELSE [points |-> 0, reasons |-> <<>>]

StarsRuleInclusive(stars) ==
    IF stars.v <= 10
    THEN [points |-> 5, reasons |-> <<MsgN("Low adoption (N stars)", stars.v)>>]
    ELSE [points |-> 0, reasons |-> <<>>]

\* "if stars < 10:" for an integer count
StarsRule(stars) ==
    IF stars.v < 10
    THEN [points |-> 5, reasons |-> <<MsgN("Low adoption (N stars)", stars.v)>>]
    ELSE [points |-> 0, reasons |-> <<>>]

CategoryOfShifted(score) ==
    IF score > 70 THEN "very_stale"
    ELSE IF score >= 50 THEN "stale"
    ELSE IF score >= 30 THEN "possibly_stale"
    ELSE "active"

CategoryOf(score) ==
    IF score >= 70 THEN "very_stale"
    ELSE IF score >= 50 THEN "stale"
    ELSE IF score >= 30 THEN "possibly_stale"
    ELSE "active"

\* analyze_staleness(repo_info); None < 10 raises TypeError
analyze_staleness(info, clock) ==
    IF "error" \in DOMAIN info
    THEN ErrorResult(info)
    ELSE LET a == ArchivedRule(info)
             f == ForkRule(info)
             g == AgeRule(info, clock)
             stars == Get(info, "stargazers_count", JInt(0))
         IN  IF stars.t = "null"
             THEN Raise("TypeError")
             ELSE LET s == StarsRule(stars)
                      staleness_score == a.points + f.points + g.points + s.points
                  IN  [staleness_score |-> staleness_score,
                       reasons |-> a.reasons \o f.reasons \o g.reasons \o s.reasons,
                       is_stale |-> staleness_score >= 50,
                       category |-> CategoryOf(staleness_score),
                       last_push |-> Get(info, "pushed_at", JNull),
                       stars |-> stars,
                       archived |-> Get(info, "archived", FALSE),
                       fork |-> Get(info, "fork", FALSE)]

-----------------------------------------------------------------------------
(* The inputs of the scorer *)

ClockReading == 24 * 20000 + 7

\* ages of the last push, in hours: around each bracket's threshold, at the
\* start and at the end of the day, and one push dated after the clock
PushAges ==
    { (365 * y + k) * HoursPerDay + h :
        y \in 0 .. MaxYears, k \in {0, 1, 180, 181}, h \in {0, HoursPerDay - 1} }
    \cup { -1 }

Optional(key, values) == { EmptyDict } \cup { key :> v : v \in values }

ErrorTags ==
    { EmptyDict,
      [error |-> Msg("Repository not found"), status_code |-> 404],
      [error |-> Msg("Rate limited or access denied"), status_code |-> 403],
      [error |-> MsgN("HTTP N", 500), status_code |-> 500],
      [error |-> Msg("Connection aborted")] }

ScorerInputs(clock) ==
    { e @@ a @@ f @@ p @@ s :
        e \in ErrorTags,
        a \in Optional("archived", BOOLEAN),
        f \in Optional("fork", BOOLEAN),
        p \in Optional("pushed_at",
                       { JNull } \cup { JTime(clock - age) : age \in PushAges }),
        s \in Optional("stargazers_count",
                       { JNull } \cup { JInt(n) : n \in 0 .. MaxStars }) }

\* the variables of the runs, for a call made on its own
Idle ==
    /\ content = <<>>
    /\ repos = <<>>
    /\ readme_exists = TRUE
    /\ output_arg = FALSE
    /\ idx = 0
    /\ results = EmptyDict
    /\ fetched = <<>>
    /\ written = <<>>
    /\ exit_code = -1
    /\ message = ""

InitScore ==
    /\ now = ClockReading
    /\ repo_info \in ScorerInputs(now)
    /\ staleness = NoValue
    /\ prog = "score"
    /\ pc = "call"
    /\ Idle

\* one call of analyze_staleness
Score ==
    /\ prog = "score"
    /\ pc = "call"
    /\ staleness' = analyze_staleness(repo_info, now)
    /\ pc' = "returned"
    /\ UNCHANGED << now, repo_info, content, repos, prog, readme_exists,
                    output_arg, idx, results, fetched, written, exit_code,
                    message >>

NextScore == Score

SpecScore == InitScore /\ [][NextScore]_vars

-----------------------------------------------------------------------------
(* The reference extractor: a string is a sequence of characters *)

MaxPunct == 2

\* the literal start of the pattern, https://github\.com/
Prefix == << "h", "t", "t", "p", "s", ":", "/", "/",
             "g", "i", "t", "h", "u", "b", ".", "c", "o", "m", "/" >>

\* \s
IsSpace(c) == c \in {" ", "\n", "\t"}

\* \w, over the characters the documents are written in
IsWord(c) ==
    c \in {"a", "b", "c", "e", "f", "g", "h", "i", "j", "m", "n", "o", "p",
           "r", "s", "t", "u", "w", "x", "1", "_"}

\* [^/\s\)]
InSegment(c) == ~(c = "/" \/ IsSpace(c) \/ c = ")")

\* [\w\-\.], the class whose complement starts the part re.sub removes
KeptInName(c) == IsWord(c) \/ c = "-" \/ c = "."

\* the index after the longest run of [^/\s\)] that starts at i (greedy +)
RECURSIVE SegmentEnd(_, _)
SegmentEnd(s, i) ==
    IF i <= Len(s) /\ InSegment(s[i]) THEN SegmentEnd(s, i + 1) ELSE i

PrefixAt(s, i) ==
    /\ i + Len(Prefix) - 1 <= Len(s)
    /\ SubSeq(s, i, i + Len(Prefix) - 1) = Prefix

\* the match of the pattern that starts at i, if there is one: the owner is
\* the run up to a "/", the name the run after it, both non-empty
MatchAt(s, i) ==
    IF ~PrefixAt(s, i) THEN [found |-> FALSE]
    ELSE LET o == i + Len(Prefix)
             oe == SegmentEnd(s, o)
         IN  IF oe = o \/ oe > Len(s) \/ s[oe] # "/" THEN [found |-> FALSE]
             ELSE LET re == SegmentEnd(s, oe + 1)
                  IN  IF re = oe + 1 THEN [found |-> FALSE]
                      ELSE [found |-> TRUE,
                            owner |-> SubSeq(s, o, oe - 1),
                            repo |-> SubSeq(s, oe + 1, re - 1),
                            end |-> re]

\* re.findall(pattern, content): the non-overlapping matches, left to right
RECURSIVE findall(_, _)
findall(s, i) ==
    IF i > Len(s) THEN << >>
    ELSE LET m == MatchAt(s, i)
         IN  IF m.found
             THEN << << m.owner, m.repo >> >> \o findall(s, m.end)
             ELSE findall(s, i + 1)

RECURSIVE KeptEnd(_, _)
KeptEnd(s, i) ==
    IF i <= Len(s) /\ KeptInName(s[i]) THEN KeptEnd(s, i + 1) ELSE i

\* re.sub(r"[^\w\-\.].*$", "", repo): cut from the first character outside
\* the class to the end
CleanName(repo) == SubSeq(repo, 1, KeptEnd(repo, 1) - 1)

\* f"{owner}/{repo}"
Reference(owner, repo) == owner \o << "/" >> \o repo

\* set(repos) of extract_github_repos (and of focused_analysis.main)
ExtractSet(text) ==
    LET matches == findall(text, 1)
    IN  { Reference(matches[k][1], CleanName(matches[k][2])) :
            k \in DOMAIN matches }

\* list(set): the set's members in some order, each once
Orderings(S) ==
    { q \in [1 .. Cardinality(S) -> S] : \A x \in S : \E k \in DOMAIN q : q[k] = x }

-----------------------------------------------------------------------------
(* The documents *)

Owners == { << "f", "o", "o" >>, << "a", "-", "b" >> }

Names == { << "b", "a", "r" >>,
           << "b", "a", "r", ".", "j", "s" >>,
           << "b", "-", "r", "_", "1" >> }

\* sentence and markdown punctuation that may follow a URL
PunctChars == { ")", ",", ".", "!" }

RECURSIVE SeqsUpTo(_, _)
SeqsUpTo(S, n) ==
    IF n = 0 THEN { << >> }
    ELSE LET shorter == SeqsUpTo(S, n - 1)
         IN  shorter \cup { Append(q, x) : q \in shorter, x \in S }

Leads == { << >>, << "s", "e", "e", " " >>, << "[", "x", "]", "(" >> }

Trails == { << >>, << " ", "x" >>, << "\n" >> }

\* one URL of owner and name, followed at once by the punctuation
Mention(owner, name, punct) == Prefix \o owner \o << "/" >> \o name \o punct

MentionDocs ==
    { lead \o Mention(o, n, p) \o trail :
        lead \in Leads, o \in Owners, n \in Names,
        p \in SeqsUpTo(PunctChars, MaxPunct), trail \in Trails }

RefOne == Mention(<< "a" >>, << "o", "n", "e" >>, << >>)
RefTwo == Mention(<< "b" >>, << "t", "w", "o" >>, << ")" >>)
RefThree == Mention(<< "c" >>, << "x", ".", "j", "s" >>, << "," >>)

\* the READMEs of the runs: no URL; one; the same twice and another in
\* parentheses; three different ones
RunDocs ==
    { << "n", "o", "n", "e" >>,
      RefOne,
      RefOne \o << " " >> \o RefOne \o << " ", "(" >> \o RefTwo,
      RefOne \o << "\n" >> \o RefTwo \o << " " >> \o RefThree \o << " " >> }

InitExtract ==
    /\ now = ClockReading
    /\ repo_info = NoValue
    /\ staleness = NoValue
    /\ prog = "extract"
    /\ pc = "call"
    /\ content \in MentionDocs \cup RunDocs
    /\ repos = <<>>
    /\ readme_exists = TRUE
    /\ output_arg = FALSE
    /\ idx = 0
    /\ results = EmptyDict
    /\ fetched = <<>>
    /\ written = <<>>
    /\ exit_code = -1
    /\ message = ""

\* one call of extract_github_repos
Extract ==
    /\ prog = "extract"
    /\ pc = "call"
    /\ repos' \in Orderings(ExtractSet(content))
    /\ pc' = "returned"
    /\ UNCHANGED << now, repo_info, staleness, content, prog, readme_exists,
                    output_arg, idx, results, fetched, written, exit_code,
                    message >>

NextExtract == Extract

SpecExtract == InitExtract /\ [][NextExtract]_vars

-----------------------------------------------------------------------------
(* The platform and the repository info client *)

\* pushed_at of a push one day ago, and of one 1200 days ago
Fresh(clock) == JTime(clock - 1 * HoursPerDay)
Old(clock) == JTime(clock - 1200 * HoursPerDay)

\* the JSON bodies the platform answers a 200 with: an active repository, a
\* possibly stale one, a stale fork, an archived one with a recent push, an
\* archived old fork, an archived one whose description is null, and a body
\* whose star count is null
RunMetadata(clock) ==
    { [archived |-> FALSE, fork |-> FALSE, pushed_at |-> Fresh(clock),
       stargazers_count |-> JInt(50), description |-> JStr("a tool"),
       language |-> JStr("Python")],
      [archived |-> FALSE, fork |-> FALSE, pushed_at |-> Old(clock),
       stargazers_count |-> JInt(50), description |-> JStr("a tool")],
      [archived |-> FALSE, fork |-> TRUE, pushed_at |-> Old(clock),
       stargazers_count |-> JInt(3), description |-> JStr("a fork")],
      [archived |-> TRUE, fork |-> FALSE, pushed_at |-> Fresh(clock),
       stargazers_count |-> JInt(50), description |-> JStr("kept")],
      [archived |-> TRUE, fork |-> TRUE, pushed_at |-> Old(clock),
       stargazers_count |-> JInt(3)],
      [archived |-> TRUE, fork |-> FALSE, pushed_at |-> Fresh(clock),
       stargazers_count |-> JInt(70), description |-> JNull],
      [archived |-> FALSE, fork |-> FALSE, pushed_at |-> Fresh(clock),
       stargazers_count |-> JNull, description |-> JStr("odd")] }

\* what session.get does: a response with a status, or an exception
PlatformAnswers(clock) ==
    { [status |-> 404], [status |-> 403], [status |-> 500],
      Raise("ConnectionError") }
    \cup { [status |-> 200, json |-> m] : m \in RunMetadata(clock) }

\* get_repo_info(repo), given what the request met
get_repo_info(answer) ==
    IF Raised(answer) THEN [error |-> Msg(answer.exc)]
    ELSE IF answer.status = 404
    THEN [error |-> Msg("Repository not found"), status_code |-> 404]
    ELSE IF answer.status = 403
    THEN [error |-> Msg("Rate limited or access denied"), status_code |-> 403]
    ELSE IF answer.status # 200
    THEN [error |-> MsgN("HTTP N", answer.status), status_code |-> answer.status]
    ELSE answer.json

-----------------------------------------------------------------------------
(* Sorting *)

\* one step of a stable sort: x goes before the first element it has to
\* precede, so equal elements keep their order (also under reverse=True)
InsertSorted(sorted, x, precedes) ==
    LET ahead == { k \in DOMAIN sorted : << x, sorted[k] >> \in precedes }
        at == IF ahead = {} THEN Len(sorted) + 1
              ELSE CHOOSE k \in ahead : \A j \in ahead : k <= j
    IN  SubSeq(sorted, 1, at - 1) \o << x >> \o SubSeq(sorted, at, Len(sorted))

\* list.sort, given the pairs << x, y >> of which x has to come before y
Sort(list, precedes) ==
    LET upto[k \in 0 .. Len(list)] ==
            IF k = 0 THEN << >> ELSE InsertSorted(upto[k - 1], list[k], precedes)
    IN  upto[Len(list)]

Pairs(list) == { << list[i], list[j] >> : i, j \in DOMAIN list }

\* the characters of a reference, in code point order
CharOrder == << "-", ".", "/", "1", "_", "a", "b", "c", "e", "f", "g", "h",
                "i", "j", "m", "n", "o", "p", "r", "s", "t", "u", "w", "x" >>

CodeRank(c) == CHOOSE k \in DOMAIN CharOrder : CharOrder[k] = c

\* a < b for two strings
RECURSIVE StrLess(_, _)
StrLess(a, b) ==
    IF b = << >> THEN FALSE
    ELSE IF a = << >> THEN TRUE
    ELSE IF Head(a) = Head(b) THEN StrLess(Tail(a), Tail(b))
    ELSE CodeRank(Head(a)) < CodeRank(Head(b))

-----------------------------------------------------------------------------
(* The CLI run: analyze_staleness.main and analyze_awesome_stars *)

\* the results dict analyze_awesome_stars starts from
NewReport(clock, n) ==
    [analysis_date |-> clock,
     total_repos |-> n,
     stale_repos |-> << >>,
     possibly_stale_repos |-> << >>,
     active_repos |-> << >>,
     error_repos |-> << >>]

\* repo_analysis: the three fixed keys, and the metadata when there is some
RepoAnalysis(repo, info, st) ==
    [repo |-> repo, url |-> Prefix \o repo, staleness |-> st]
    @@ (IF "error" \notin DOMAIN info
        THEN [description |-> Get(info, "description", JStr("")),
              language |-> Get(info, "language", JStr("Unknown")),
              stars |-> Get(info, "stargazers_count", JInt(0)),
              last_push |-> Get(info, "pushed_at", JStr("")),
              created_at |-> Get(info, "created_at", JStr("")),
              archived |-> Get(info, "archived", FALSE)]
        ELSE EmptyDict)

CategorizeUnmerged(report, entry) ==
    LET category == entry["staleness"].category
    IN  IF category = "error"
        THEN [report EXCEPT !.error_repos = Append(@, entry)]
        ELSE IF category = "stale"
        THEN [report EXCEPT !.stale_repos = Append(@, entry)]
        ELSE IF category = "possibly_stale"
        THEN [report EXCEPT !.possibly_stale_repos = Append(@, entry)]
        ELSE [report EXCEPT !.active_repos = Append(@, entry)]

\* the "Categorize" chain of analyze_awesome_stars
Categorize(report, entry) ==
    LET category == entry["staleness"].category
    IN  IF category = "error"
        THEN [report EXCEPT !.error_repos = Append(@, entry)]
        ELSE IF category \in {"very_stale", "stale"}
        THEN [report EXCEPT !.stale_repos = Append(@, entry)]
        ELSE IF category = "possibly_stale"
        THEN [report EXCEPT !.possibly_stale_repos = Append(@, entry)]
        ELSE [report EXCEPT !.active_repos = Append(@, entry)]

\* key=lambda x: x["staleness"]["staleness_score"], reverse=True
ByStalenessDesc(list) ==
    { p \in Pairs(list) :
        p[1]["staleness"].staleness_score > p[2]["staleness"].staleness_score }

SortReport(report) ==
    [report EXCEPT !.stale_repos = Sort(@, ByStalenessDesc(@)),
                   !.possibly_stale_repos = Sort(@, ByStalenessDesc(@))]

Untouched == UNCHANGED << now, content, prog, readme_exists, output_arg >>

MainReturnZeroOnInterrupt(outcome) ==
    IF outcome \in {"completed", "interrupted"} THEN 0 ELSE 1

\* the return statements of main: 0 after print_summary, 1 for a missing
\* README, for KeyboardInterrupt and for any other exception
MainReturn(outcome) == IF outcome = "completed" THEN 0 ELSE 1

\* main: the README is not there
MainMissing ==
    /\ prog = "cli"
    /\ pc = "main"
    /\ ~readme_exists
    /\ message' = "Error: README file not found"
    /\ exit_code' = MainReturn("missing")
    /\ pc' = "exit"
    /\ Untouched
    /\ UNCHANGED << repo_info, staleness, repos, idx, results, fetched, written >>

\* main goes on to analyze_awesome_stars, which extracts the references and
\* sets up the report
CliStart ==
    /\ prog = "cli"
    /\ pc = "main"
    /\ readme_exists
    /\ repos' \in Orderings(ExtractSet(content))
    /\ results' = NewReport(now, Len(repos'))
    /\ idx' = 0
    /\ pc' = "loop"
    /\ Untouched
    /\ UNCHANGED << repo_info, staleness, fetched, written, exit_code, message >>

\* one turn of the loop of analyze_awesome_stars; an exception raised by
\* analyze_staleness leaves the loop and the function and is caught by main's
\* "except Exception", which returns 1
CliStep ==
    /\ prog = "cli"
    /\ pc = "loop"
    /\ idx < Len(repos)
    /\ \E answer \in PlatformAnswers(now) :
        LET repo == repos[idx + 1]
            info == get_repo_info(answer)
            st == analyze_staleness(info, now)
        IN  /\ fetched' = Append(fetched, answer)
            /\ repo_info' = info
            /\ staleness' = st
            /\ IF Raised(st)
               THEN /\ message' = "Error during analysis"
                    /\ exit_code' = MainReturn("exception")
                    /\ pc' = "exit"
                    /\ UNCHANGED << results, idx >>
               ELSE /\ results' = Categorize(results, RepoAnalysis(repo, info, st))
                    /\ idx' = idx + 1
                    /\ UNCHANGED << pc, exit_code, message >>
    /\ Untouched
    /\ UNCHANGED << repos, written >>

\* after the loop: the two sorts, the save when --output was given, return
CliFinish ==
    /\ prog = "cli"
    /\ pc = "loop"
    /\ idx = Len(repos)
    /\ results' = SortReport(results)
    /\ written' = IF output_arg THEN Append(written, results') ELSE written
    /\ pc' = "summary"
    /\ Untouched
    /\ UNCHANGED << repo_info, staleness, repos, idx, fetched, exit_code, message >>

\* print_summary(results); return 0
CliSummary ==
    /\ prog = "cli"
    /\ pc = "summary"
    /\ message' = "AWESOME STARS STALENESS ANALYSIS SUMMARY"
    /\ exit_code' = MainReturn("completed")
    /\ pc' = "exit"
    /\ Untouched
    /\ UNCHANGED << repo_info, staleness, repos, idx, results, fetched, written >>

\* KeyboardInterrupt inside main's try block
CliInterrupt ==
    /\ prog = "cli"
    /\ pc \in {"loop", "summary"}
    /\ message' = "Analysis interrupted by user"
    /\ exit_code' = MainReturn("interrupted")
    /\ pc' = "exit"
    /\ Untouched
    /\ UNCHANGED << repo_info, staleness, repos, idx, results, fetched, written >>

-----------------------------------------------------------------------------
(* The chunked run: focused_analysis.main.  Its batches of 50 only place   *)
(* the pauses; the references are gone through in list order.              *)

NewFocusedReport(clock) ==
    [analysis_date |-> clock,
     total_analyzed |-> 0,
     stale_repos |-> << >>,
     possibly_stale_repos |-> << >>,
     archived_repos |-> << >>,
     missing_repos |-> << >>,
     error_count |-> 0]

\* value[:100]: None is not subscriptable; the descriptions here are short
Slice100(value) == IF value.t = "null" THEN Raise("TypeError") ELSE value

\* the "except Exception" of the loop body
CountException(report) == [report EXCEPT !.error_count = @ + 1]

RecordFetchErrorAllListed(report, repo, info) ==
    [report EXCEPT !.missing_repos =
        Append(@, [repo |-> repo,
                   error |-> Msg("Repository not found (deleted/moved)")])]

\* the branch for an error dict: a 404 is listed, anything else is counted
RecordFetchError(report, repo, info) ==
    IF Get(info, "status_code", 0) = 404
    THEN [report EXCEPT !.missing_repos =
              Append(@, [repo |-> repo,
                         error |-> Msg("Repository not found (deleted/moved)")])]
    ELSE [report EXCEPT !.error_count = @ + 1]

FocusedResult(repo, info, st, description) ==
    [repo |-> repo,
     url |-> Prefix \o repo,
     description |-> description,
     language |-> Get(info, "language", JStr("Unknown")),
     stars |-> Get(info, "stargazers_count", JInt(0)),
     last_push |-> Get(info, "pushed_at", JStr("")),
     archived |-> Get(info, "archived", FALSE),
     fork |-> Get(info, "fork", FALSE),
     staleness_score |-> st.staleness_score,
     reasons |-> st.reasons]

\* the archived / stale / possibly stale / active chain
Bucket(report, info, st, entry) ==
    IF Get(info, "archived", FALSE)
    THEN [report EXCEPT !.archived_repos = Append(@, entry)]
    ELSE IF st.staleness_score >= 50
    THEN [report EXCEPT !.stale_repos = Append(@, entry)]
    ELSE IF st.staleness_score >= 30
    THEN [report EXCEPT !.possibly_stale_repos = Append(@, entry)]
    ELSE report

\* the loop body after a successful fetch, with its exception handler
RecordAnalyzed(report, repo, info, st) ==
    IF Raised(st) THEN CountException(report)
    ELSE LET counted == [report EXCEPT !.total_analyzed = @ + 1]
             description == Slice100(Get(info, "description", JStr("")))
         IN  IF Raised(description) THEN CountException(counted)
             ELSE Bucket(counted, info, st,
                         FocusedResult(repo, info, st, description))

\* key=lambda x: x["staleness_score"], reverse=True
ByScoreDesc(list) ==
    { p \in Pairs(list) : p[1].staleness_score > p[2].staleness_score }

\* key=lambda x: x["stars"], reverse=True
ByStarsDesc(list) == { p \in Pairs(list) : p[1].stars.v > p[2].stars.v }

\* key=lambda x: x["repo"]
ByRepo(list) == { p \in Pairs(list) : StrLess(p[1].repo, p[2].repo) }

SortFocusedReportSkipsArchived(report) ==
    [report EXCEPT !.stale_repos = Sort(@, ByScoreDesc(@)),
                   !.possibly_stale_repos = Sort(@, ByScoreDesc(@)),
                   !.missing_repos = Sort(@, ByRepo(@))]

\* the four sorts after the loops
SortFocusedReport(report) ==
    [report EXCEPT !.stale_repos = Sort(@, ByScoreDesc(@)),
                   !.possibly_stale_repos = Sort(@, ByScoreDesc(@)),
                   !.archived_repos = Sort(@, ByStarsDesc(@)),
                   !.missing_repos = Sort(@, ByRepo(@))]

\* open("README.md") raises FileNotFoundError, which nothing catches
FocusedMissing ==
    /\ prog = "focused"
    /\ pc = "main"
    /\ ~readme_exists
    /\ message' = "FileNotFoundError"
    /\ pc' = "crashed"
    /\ Untouched
    /\ UNCHANGED << repo_info, staleness, repos, idx, results, fetched, written,
                    exit_code >>

FocusedStart ==
    /\ prog = "focused"
    /\ pc = "main"
    /\ readme_exists
    /\ repos' \in Orderings(ExtractSet(content))
    /\ results' = NewFocusedReport(now)
    /\ idx' = 0
    /\ pc' = "loop"
    /\ Untouched
    /\ UNCHANGED << repo_info, staleness, fetched, written, exit_code, message >>

\* one turn of the inner loop
FocusedStep ==
    /\ prog = "focused"
    /\ pc = "loop"
    /\ idx < Len(repos)
    /\ \E answer \in PlatformAnswers(now) :
        LET repo == repos[idx + 1]
            info == get_repo_info(answer)
        IN  /\ fetched' = Append(fetched, answer)
            /\ repo_info' = info
            /\ IF "error" \in DOMAIN info
               THEN /\ results' = RecordFetchError(results, repo, info)
                    /\ staleness' = staleness
               ELSE LET st == analyze_staleness(info, now)
                    IN  /\ staleness' = st
                        /\ results' = RecordAnalyzed(results, repo, info, st)
    /\ idx' = idx + 1
    /\ Untouched
    /\ UNCHANGED << repos, pc, written, exit_code, message >>

\* after the loops: the four sorts and the save
FocusedFinish ==
    /\ prog = "focused"
    /\ pc = "loop"
    /\ idx = Len(repos)
    /\ results' = SortFocusedReport(results)
    /\ written' = Append(written, results')
    /\ pc' = "summary"
    /\ Untouched
    /\ UNCHANGED << repo_info, staleness, repos, idx, fetched, exit_code, message >>

\* the summary is printed and main returns
FocusedSummary ==
    /\ prog = "focused"
    /\ pc = "summary"
    /\ message' = "ANALYSIS SUMMARY"
    /\ exit_code' = 0
    /\ pc' = "exit"
    /\ Untouched
    /\ UNCHANGED << repo_info, staleness, repos, idx, results, fetched, written >>

\* KeyboardInterrupt is no Exception: the loop's handler lets it through
FocusedInterrupt ==
    /\ prog = "focused"
    /\ pc \in {"loop", "summary"}
    /\ message' = "KeyboardInterrupt"
    /\ pc' = "crashed"
    /\ Untouched
    /\ UNCHANGED << repo_info, staleness, repos, idx, results, fetched, written,
                    exit_code >>

-----------------------------------------------------------------------------
(* The two runs *)

Init ==
    /\ now = ClockReading
    /\ repo_info = NoValue
    /\ staleness = NoValue
    /\ prog \in {"cli", "focused"}
    /\ pc = "main"
    /\ readme_exists \in BOOLEAN
    /\ content \in (IF readme_exists THEN RunDocs ELSE { << >> })
    /\ output_arg \in (IF prog = "cli" THEN BOOLEAN ELSE { TRUE })
    /\ repos = << >>
    /\ idx = 0
    /\ results = EmptyDict
    /\ fetched = << >>
    /\ written = << >>
    /\ exit_code = -1
    /\ message = ""

Next ==
    \/ MainMissing
    \/ CliStart
    \/ CliStep
    \/ CliFinish
    \/ CliSummary
    \/ CliInterrupt
    \/ FocusedMissing
    \/ FocusedStart
    \/ FocusedStep
    \/ FocusedFinish
    \/ FocusedSummary
    \/ FocusedInterrupt

Spec == Init /\ [][Next]_vars

-----------------------------------------------------------------------------
(* Properties of the scorer, checked under SpecScore *)

Returned == prog = "score" /\ pc = "returned"

\* the record is metadata the scorer's rules apply to: no error tag and a
\* star count that is an integer (or left out, which counts as 0)
IsMetadata(info) ==
    /\ "error" \notin DOMAIN info
    /\ Get(info, "stargazers_count", JInt(0)).t = "int"

HasPush(info) == Get(info, "pushed_at", JNull).t = "str"

\* whole days since the last push, for a record that has one
PushDays(info) == (now - info["pushed_at"].hours) \div 24

StarCount(info) == Get(info, "stargazers_count", JInt(0)).v

ExpectedArchived(info) == IF Get(info, "archived", FALSE) THEN 50 ELSE 0
ExpectedFork(info) == IF Get(info, "fork", FALSE) THEN 10 ELSE 0
ExpectedStars(info) == IF StarCount(info) <= 9 THEN 5 ELSE 0
ExpectedAge(info) ==
    IF ~HasPush(info) THEN 0
    ELSE LET d == PushDays(info)
         IN  CASE d >= 1096 -> 40
               [] d \in 731 .. 1095 -> 30
               [] d \in 366 .. 730 -> 20
               [] d \in 181 .. 365 -> 10
               [] OTHER -> 0

AgeReasons(r) ==
    { k \in DOMAIN r.reasons :
        r.reasons[k].text \in {"No commits in N years", "No commits in N days"} }

\* C1: for every non-error metadata record the returned score is the sum of
\* the contributions that apply (50 archived, 10 fork, the age contribution,
\* 5 for fewer than 10 stars); archived, fork, 3 stars and a push 6 years ago
\* give score 105, category very_stale and is_stale = true.
C1_ScoringAdditivity ==
    (Returned /\ IsMetadata(repo_info)) =>
        /\ ~Raised(staleness)
        /\ staleness.staleness_score =
              ExpectedArchived(repo_info) + ExpectedFork(repo_info)
              + ExpectedAge(repo_info) + ExpectedStars(repo_info)
        /\ ( /\ Get(repo_info, "archived", FALSE)
             /\ Get(repo_info, "fork", FALSE)
             /\ StarCount(repo_info) = 3
             /\ HasPush(repo_info)
             /\ PushDays(repo_info) = 6 * 365 )
           => /\ staleness.staleness_score = 105
              /\ staleness.category = "very_stale"
              /\ staleness.is_stale = TRUE

C1_Witness ==
    /\ Returned
    /\ IsMetadata(repo_info)
    /\ Get(repo_info, "archived", FALSE)
    /\ Get(repo_info, "fork", FALSE)
    /\ StarCount(repo_info) = 3
    /\ HasPush(repo_info)
    /\ PushDays(repo_info) = 6 * 365
    /\ staleness.staleness_score = 105

\* C2: an error-tagged input, whatever other fields it carries, yields exactly
\* score 100, category error, is_stale = true and the error message as the
\* only reason; no other rule contributes.
C2_ErrorShortCircuit ==
    (Returned /\ "error" \in DOMAIN repo_info) =>
        staleness = [staleness_score |-> 100,
                     reasons |-> <<repo_info["error"]>>,
                     is_stale |-> TRUE,
                     category |-> "error"]

C2_Witness ==
    /\ Returned
    /\ "error" \in DOMAIN repo_info
    /\ Get(repo_info, "archived", FALSE)
    /\ Get(repo_info, "fork", FALSE)
    /\ HasPush(repo_info)
    /\ PushDays(repo_info) > 1095
    /\ "stargazers_count" \in DOMAIN repo_info
    /\ staleness.staleness_score = 100
    /\ Len(staleness.reasons) = 1

\* C5: on non-error input the category is a function of the score alone
\* (very_stale iff >= 70, stale iff 50..69, possibly_stale iff 30..49, active
\* iff < 30) and is_stale holds iff the score is >= 50.
C5_CategoryByScore ==
    (Returned /\ IsMetadata(repo_info)) =>
        LET score == staleness.staleness_score
            cat == staleness.category
        IN  /\ cat \in {"very_stale", "stale", "possibly_stale", "active"}
            /\ (cat = "very_stale") <=> (score >= 70)
            /\ (cat = "stale") <=> (score >= 50 /\ score < 70)
            /\ (cat = "possibly_stale") <=> (score >= 30 /\ score < 50)
            /\ (cat = "active") <=> (score < 30)
            /\ staleness.is_stale <=> (score >= 50)
            /\ cat \in {"very_stale", "stale"} => staleness.is_stale
            /\ cat \in {"possibly_stale", "active"} => ~staleness.is_stale

C5_Witness ==
    /\ Returned
    /\ IsMetadata(repo_info)
    /\ staleness.staleness_score = 70
    /\ staleness.category = "very_stale"
    /\ staleness.is_stale

\* C6: for every whole-day count d since the last push exactly one age rule
\* applies and at most one age reason is appended: +40 if d > 1095, else +30
\* if d > 730, else +20 if d > 365, else +10 if d > 180, else 0; d = 366 adds
\* 20, d = 365 adds 10 and d = 180 adds nothing.
C6_AgeBracketExclusive ==
    (Returned /\ IsMetadata(repo_info) /\ HasPush(repo_info)) =>
        LET d == PushDays(repo_info)
            age == staleness.staleness_score - ExpectedArchived(repo_info)
                   - ExpectedFork(repo_info) - ExpectedStars(repo_info)
        IN  /\ age = ExpectedAge(repo_info)
            /\ Cardinality(AgeReasons(staleness)) = (IF d > 180 THEN 1 ELSE 0)
            /\ d = 366 => age = 20
            /\ d = 365 => age = 10
            /\ d = 180 => age = 0
            /\ d = 1095 => age = 30
            /\ d = 1096 => age = 40

C6_Witness ==
    /\ Returned
    /\ IsMetadata(repo_info)
    /\ HasPush(repo_info)
    /\ PushDays(repo_info) = 366
    /\ ExpectedArchived(repo_info) + ExpectedFork(repo_info)
       + ExpectedStars(repo_info) = 0
    /\ staleness.staleness_score = 20
    /\ Cardinality(AgeReasons(staleness)) = 1

\* a record that is not archived, is a fork, has fewer than 10 stars and was
\* pushed recently (no age contribution)
LowStarRecentFork(info) ==
    /\ IsMetadata(info)
    /\ ~Get(info, "archived", FALSE)
    /\ Get(info, "fork", FALSE)
    /\ StarCount(info) < 10
    /\ HasPush(info)
    /\ PushDays(info) <= 180

\* C10 as stated: a fork with fewer than 10 stars and a recent push reaches
\* the possibly_stale threshold (score >= 30, category possibly_stale) from
\* the low-star and fork contributions alone.  Every record of that kind gets
\* the same two contributions, so one that falls short refutes it.
C10_LowStarForkReachesPossiblyStale ==
    (Returned /\ LowStarRecentFork(repo_info)) =>
        /\ staleness.staleness_score >= 30
        /\ staleness.category = "possibly_stale"

\* C10 as amended: a record that is not archived, is a fork, has fewer
\* than 10 stars and no age contribution gets score 15 (10 + 5) and category
\* active, with is_stale = false: the low-star and fork contributions alone
\* stay below the possibly_stale threshold of 30.
C10_LowStarForkStaysActive ==
    (Returned /\ ~Raised(staleness) /\ "error" \notin DOMAIN repo_info
       /\ ~Get(repo_info, "archived", FALSE) /\ Get(repo_info, "fork", FALSE)
       /\ StarCount(repo_info) < 10
       /\ (HasPush(repo_info) => PushDays(repo_info) <= 180)) =>
        /\ staleness.staleness_score = 15
        /\ staleness.category = "active"
        /\ staleness.is_stale = FALSE

C10_Witness ==
    /\ Returned
    /\ LowStarRecentFork(repo_info)
    /\ StarCount(repo_info) = 3
    /\ PushDays(repo_info) = 1
    /\ staleness.staleness_score = 15
    /\ staleness.category = "active"

-----------------------------------------------------------------------------
(* Properties of the extractor, checked under SpecExtract *)

Extracted == prog = "extract" /\ pc = "returned"

\* the document is one URL of owner o and name n followed at once by the
\* non-empty punctuation p
IsMentionWith(o, n, p) ==
    \E lead \in Leads, trail \in Trails :
        content = lead \o Mention(o, n, p) \o trail

\* C7: a URL https://github.com/O/N followed at once by trailing punctuation
\* yields the reference O/N with none of the punctuation attached, and the
\* interior dots of N are kept.
C7_TrailingPunctuationTrimmed ==
    Extracted =>
        \A o \in Owners, n \in Names, p \in SeqsUpTo(PunctChars, MaxPunct) :
            (p # << >> /\ IsMentionWith(o, n, p)) => repos = << Reference(o, n) >>

\* what the code does: the punctuation is trimmed whenever it does not begin
\* with a dot, and a dot or dots right after the name stay attached
C7_TrimmedUnlessDotFollows ==
    Extracted =>
        \A o \in Owners, n \in Names, p \in SeqsUpTo(PunctChars, MaxPunct) :
            (p # << >> /\ IsMentionWith(o, n, p)) =>
                IF p[1] # "."
                THEN repos = << Reference(o, n) >>
                ELSE /\ Len(repos) = 1
                     /\ repos[1] # Reference(o, n)
                     /\ repos[1][Len(Reference(o, n)) + 1] = "."

C7_Witness ==
    /\ Extracted
    /\ IsMentionWith(<< "f", "o", "o" >>, << "b", "a", "r", ".", "j", "s" >>,
                     << ")", "." >>)
    /\ repos = << Reference(<< "f", "o", "o" >>, << "b", "a", "r", ".", "j", "s" >>) >>

-----------------------------------------------------------------------------
(* Properties of the two runs, checked under Spec *)

\* how many entries of a bucket are about a reference
EntriesFor(bucket, repo) == { k \in DOMAIN bucket : bucket[k]["repo"] = repo }
CountFor(bucket, repo) == Cardinality(EntriesFor(bucket, repo))

\* the request got no metadata: an HTTP error status or an exception
FetchFailed(answer) == Raised(answer) \/ answer.status # 200
NotFound(answer) == ~Raised(answer) /\ answer.status = 404

\* the request got metadata with a null star count, on which scoring raises
ScoringRaises(answer) ==
    ~FetchFailed(answer) /\ answer.json["stargazers_count"].t = "null"

\* the request got metadata with a null description, which the chunked run's
\* description[:100] raises on
SlicingRaises(answer) ==
    /\ ~FetchFailed(answer)
    /\ ~ScoringRaises(answer)
    /\ "description" \in DOMAIN answer.json
    /\ answer.json["description"].t = "null"

CliBuckets ==
    << results.error_repos, results.stale_repos,
       results.possibly_stale_repos, results.active_repos >>

CliBucketOf(category) ==
    CASE category = "error" -> 1
      [] category \in {"very_stale", "stale"} -> 2
      [] category = "possibly_stale" -> 3
      [] category = "active" -> 4

IsErrorEntry(entry) ==
    /\ "staleness" \in DOMAIN entry
    /\ entry["staleness"].staleness_score = 100
    /\ entry["staleness"].category = "error"

\* C3: in analyze_awesome_stars, whatever references fail with NotFound (or
\* any other fetch error), a failed fetch never stops the loop, and every
\* reference the loop has gone through is in exactly one of the four buckets:
\* a failed one in error_repos, any other in the bucket of its category,
\* very_stale and stale both in stale_repos; when the loop has finished it
\* has gone through every reference and total_repos is the sum of the four
\* bucket sizes.
C3_BatchResilience ==
    (prog = "cli" /\ pc # "main" /\ readme_exists) =>
        /\ \A k \in 1 .. idx :
            /\ \A b \in 1 .. 4 :
                 CountFor(CliBuckets[b], repos[k]) =
                    (IF \E e \in EntriesFor(CliBuckets[b], repos[k]) :
                            CliBucketOf(CliBuckets[b][e]["staleness"].category) = b
                     THEN 1 ELSE 0)
            /\ Cardinality({ b \in 1 .. 4 : CountFor(CliBuckets[b], repos[k]) = 1 }) = 1
            /\ FetchFailed(fetched[k]) <=> CountFor(results.error_repos, repos[k]) = 1
        /\ \A k \in DOMAIN fetched : FetchFailed(fetched[k]) => k <= idx
        /\ \A k \in idx + 1 .. Len(repos) :
             \A b \in 1 .. 4 : CountFor(CliBuckets[b], repos[k]) = 0
        /\ Len(results.error_repos) + Len(results.stale_repos)
           + Len(results.possibly_stale_repos) + Len(results.active_repos) = idx
        /\ results.total_repos = Len(repos)
        /\ (pc = "summary" \/ exit_code = 0) =>
              /\ idx = Len(repos)
              /\ results.total_repos =
                    Len(results.error_repos) + Len(results.stale_repos)
                    + Len(results.possibly_stale_repos) + Len(results.active_repos)

C3_Witness ==
    /\ prog = "cli"
    /\ pc = "summary"
    /\ Len(repos) = 3
    /\ NotFound(fetched[1])
    /\ Len(results.error_repos) = 1
    /\ Len(results.stale_repos) = 2
    /\ results.stale_repos[1]["staleness"].category = "very_stale"
    /\ results.stale_repos[2]["staleness"].category = "stale"

AllEntries ==
    IF prog = "cli"
    THEN results.error_repos \o results.stale_repos
         \o results.possibly_stale_repos \o results.active_repos
    ELSE results.missing_repos \o results.archived_repos
         \o results.stale_repos \o results.possibly_stale_repos

Started == prog \in {"cli", "focused"} /\ pc # "main" /\ readme_exists

\* C4 as stated: in both runs a failure while fetching or scoring a reference
\* is recorded as an error-category entry (score 100, category error) for
\* that reference in the report, and never aborts the batch.
C4_FailureIsErrorEntry ==
    Started =>
        \A k \in DOMAIN fetched :
            (FetchFailed(fetched[k]) \/ ScoringRaises(fetched[k])
               \/ (prog = "focused" /\ SlicingRaises(fetched[k]))) =>
                /\ \E e \in DOMAIN AllEntries :
                     /\ AllEntries[e]["repo"] = repos[k]
                     /\ IsErrorEntry(AllEntries[e])
                /\ message # "Error during analysis"

\* a failure that is no 404: another failed fetch, or metadata on which
\* scoring or the building of the entry raises
OtherFailure(answer) ==
    (FetchFailed(answer) /\ ~NotFound(answer))
    \/ ScoringRaises(answer) \/ SlicingRaises(answer)

NotFoundCount == Cardinality({ k \in DOMAIN fetched : NotFound(fetched[k]) })
OtherFailureCount ==
    Cardinality({ k \in DOMAIN fetched : OtherFailure(fetched[k]) })

\* C4 as amended: no failure of a fetch aborts either run, and the loop goes
\* on with the next reference.  analyze_awesome_stars records a failed fetch
\* as an entry of error_repos with score 100, category error and the error
\* message as its only reason; an exception raised by scoring is not handled
\* there: it ends the batch and main returns 1.  The chunked run records a
\* 404 as an entry of missing_repos (the reference and a message, no score
\* and no category) and only counts every other failure in error_count (any
\* other failed fetch, and an exception raised while scoring or while
\* building the entry); none of these ends its loop.
C4_FailureHandling ==
    Started =>
        /\ prog = "cli" =>
            /\ \A k \in DOMAIN fetched :
                /\ FetchFailed(fetched[k]) =>
                    /\ k <= idx
                    /\ \E e \in DOMAIN results.error_repos :
                         /\ results.error_repos[e]["repo"] = repos[k]
                         /\ results.error_repos[e]["staleness"] =
                              [staleness_score |-> 100,
                               reasons |-> << get_repo_info(fetched[k])["error"] >>,
                               is_stale |-> TRUE,
                               category |-> "error"]
                /\ ScoringRaises(fetched[k]) =>
                    /\ k = idx + 1
                    /\ k = Len(fetched)
                    /\ pc = "exit"
                    /\ exit_code = 1
                    /\ message = "Error during analysis"
                    /\ written = << >>
            /\ message = "Error during analysis" =>
                  ScoringRaises(fetched[Len(fetched)])
            /\ message # "Error during analysis" => idx = Len(fetched)
        /\ prog = "focused" =>
            /\ idx = Len(fetched)
            /\ Len(results.missing_repos) = NotFoundCount
            /\ \A k \in DOMAIN fetched :
                 NotFound(fetched[k]) =>
                    \E e \in DOMAIN results.missing_repos :
                        results.missing_repos[e] =
                            [repo |-> repos[k],
                             error |-> Msg("Repository not found (deleted/moved)")]
            /\ results.error_count = OtherFailureCount
            /\ \A k \in DOMAIN fetched :
                 OtherFailure(fetched[k]) =>
                    \A e \in DOMAIN AllEntries : AllEntries[e]["repo"] # repos[k]
            /\ \A e \in DOMAIN AllEntries : ~IsErrorEntry(AllEntries[e])
            /\ pc = "crashed" => message = "KeyboardInterrupt"
        /\ pc = "summary" => idx = Len(repos)

C4_Witness ==
    /\ prog = "focused"
    /\ pc = "summary"
    /\ Len(repos) = 3
    /\ NotFound(fetched[1])
    /\ Raised(fetched[2])
    /\ SlicingRaises(fetched[3])
    /\ Len(results.missing_repos) = 1
    /\ results.error_count = 2

SummaryLine == "AWESOME STARS STALENESS ANALYSIS SUMMARY"

\* C8: analyze_staleness.main returns 0 exactly when the batch and the
\* summary have completed, and 1 when the README is missing, when the run is
\* interrupted and when an exception escapes the batch; the missing-README
\* check comes before any request: a run that ends that way has issued no
\* fetch and written no output file.
C8_ExitStatus ==
    prog = "cli" =>
        /\ exit_code \in {-1, 0, 1}
        /\ (pc = "exit") <=> (exit_code # -1)
        /\ (exit_code = 0) <=>
              /\ message = SummaryLine
              /\ readme_exists
              /\ idx = Len(repos)
              /\ Len(fetched) = Len(repos)
        /\ (exit_code = 1) <=>
              message \in {"Error: README file not found",
                           "Analysis interrupted by user",
                           "Error during analysis"}
        /\ (pc = "exit" /\ ~readme_exists) =>
              /\ exit_code = 1
              /\ message = "Error: README file not found"
        /\ message = "Error: README file not found" => ~readme_exists
        /\ ~readme_exists => (fetched = << >> /\ written = << >>)
        /\ message = "Error during analysis" =>
              ScoringRaises(fetched[Len(fetched)])

C8_Witness ==
    /\ prog = "cli"
    /\ pc = "exit"
    /\ exit_code = 0
    /\ Len(repos) = 3
    /\ Len(fetched) = 3
    /\ Len(written) = 1

IsArchived(answer) == ~FetchFailed(answer) /\ answer.json["archived"] = TRUE

\* C9: after the chunked run every reference whose fetch succeeded with
\* archived = true is in archived_repos, whatever its score, and in no other
\* bucket; stale_repos and possibly_stale_repos hold only references whose
\* metadata has archived = false.
C9_ArchivedPriority ==
    (prog = "focused" /\ pc \in {"summary", "exit"}) =>
        /\ \A k \in DOMAIN fetched :
             IsArchived(fetched[k]) =>
                /\ CountFor(results.archived_repos, repos[k]) = 1
                /\ CountFor(results.stale_repos, repos[k]) = 0
                /\ CountFor(results.possibly_stale_repos, repos[k]) = 0
                /\ CountFor(results.missing_repos, repos[k]) = 0
        /\ \A e \in DOMAIN results.stale_repos :
             results.stale_repos[e].archived = FALSE
        /\ \A e \in DOMAIN results.possibly_stale_repos :
             results.possibly_stale_repos[e].archived = FALSE


\* the list is in descending order of the scores
ScoresDescend(scores) ==
    \A i, j \in DOMAIN scores : i < j => scores[i] >= scores[j]

\* the buckets of a saved report are in the order the sorts give them
SavedSorted(report) ==
    IF prog = "cli"
    THEN /\ ScoresDescend([k \in DOMAIN report.stale_repos |->
                report.stale_repos[k]["staleness"].staleness_score])
         /\ ScoresDescend([k \in DOMAIN report.possibly_stale_repos |->
                report.possibly_stale_repos[k]["staleness"].staleness_score])
    ELSE /\ ScoresDescend([k \in DOMAIN report.stale_repos |->
                report.stale_repos[k].staleness_score])
         /\ ScoresDescend([k \in DOMAIN report.possibly_stale_repos |->
                report.possibly_stale_repos[k].staleness_score])
         /\ ScoresDescend([k \in DOMAIN report.archived_repos |->
                report.archived_repos[k].stars.v])
         /\ \A i, j \in DOMAIN report.missing_repos :
                i < j => StrLess(report.missing_repos[i].repo,
                                 report.missing_repos[j].repo)

\* C11: in both runs the report is written to the output file at most once,
\* only after the loop has gone through every reference and the buckets have
\* been sorted, and from the report in memory; a run that is interrupted or
\* aborted before the loop has finished never writes an output file.
C11_PersistOnceAtTheEnd ==
    prog \in {"cli", "focused"} =>
        /\ Len(written) <= 1
        /\ written # << >> =>
              /\ pc \in {"summary", "exit", "crashed"}
              /\ readme_exists
              /\ idx = Len(repos)
              /\ Len(fetched) = Len(repos)
              /\ written[1] = results
              /\ SavedSorted(written[1])
              /\ prog = "cli" => output_arg
        /\ (pc \in {"exit", "crashed"} /\ idx < Len(repos)) => written = << >>
        /\ message = "Error during analysis" => written = << >>
        /\ (pc \in {"main", "loop"} \/ ~readme_exists) => written = << >>
        /\ (prog = "focused" /\ pc \in {"summary", "exit"}) => Len(written) = 1
        /\ (prog = "cli" /\ output_arg /\ pc = "summary") => Len(written) = 1

C11_Witness ==
    /\ prog = "focused"
    /\ pc = "summary"
    /\ Len(repos) = 3
    /\ Len(written) = 1
    /\ Len(written[1].archived_repos) = 3
    /\ written[1].archived_repos[1].repo = repos[3]
    /\ written[1].archived_repos[1].stars.v > written[1].archived_repos[3].stars.v


\* C12: when the loop of the chunked run has finished, every unique
\* reference has been counted exactly once: total_analyzed plus the number of
\* missing_repos plus error_count equals the number of unique references,
\* whatever the fetches returned.
C12_AccountingInvariant ==
    (prog = "focused" /\ pc \in {"summary", "exit"}) =>
        results.total_analyzed + Len(results.missing_repos)
            + results.error_count = Len(repos)

=============================================================================
